---- MODULE Spec2Model ----
(***************************************************************************)
(* Model of the go-redis-clone server (server.go, latest revision with the *)
(* key-value store): Start / Stop lifecycle, the client registry guarded   *)
(* by clientsLock, one handleConn worker per accepted connection, and the  *)
(* GET / SET command handlers over the shared database.                    *)
(***************************************************************************)
EXTENDS Integers, Sequences, FiniteSets, TLC

\* ---------------------------------------------------------------- bounds
MaxConns == 2      \* connections the environment offers to Accept
MaxReqs  == 3      \* requests decoded over all connections (command runs)
LifeReqs == 1      \* requests decoded over all connections (lifecycle runs)
NumStart == 2      \* calls to Start
NumStop  == 2      \* calls to Stop

StartCallers == 1..NumStart
StopCallers  == 1..NumStop
Conns        == 1..MaxConns

VARIABLES
    started,        \* server.started (atomic.Bool)
    shuttingDown,   \* server.shuttingDown
    listenerOpen,   \* FALSE once listener.Close() was called
    clients,        \* server.clients: client id -> connection
    lastClientId,   \* server.lastClientId
    clientsLock,    \* holder of server.clientsLock
    database,       \* server.database: key -> value
    startPc, startRet, startConn, startErr, startFlag,
    stopPc, stopRet, stopTodo,
    accepted,       \* number of connections returned by Accept so far
    closedBy,       \* per connection: who called Close on it, in order
    closeErr,       \* handles whose Close returns an error (0: the listener)
    wPc,            \* per worker: where handleConn is
    wId,            \* per worker: its clientId argument
    wReq,           \* per worker: the request being dispatched
    wReplies,       \* per worker: the writes its latest step made to the connection
    nreq,           \* requests the peers may still send
    written         \* per key: values of the completed SETs, in order

lifecycle == <<started, shuttingDown, listenerOpen, clients, lastClientId, clientsLock>>
startVars == <<startPc, startRet, startConn, startErr, startFlag>>
stopVars  == <<stopPc, stopRet, stopTodo>>
connVars  == <<accepted, closedBy, closeErr>>
workVars  == <<wPc, wId, wReq, wReplies, nreq>>
dataVars  == <<database, written>>
vars == <<lifecycle, startVars, stopVars, connVars, workVars, dataVars>>

\* ------------------------------------------------------------ data model
Keys   == {"foo", "missing"}
Values == {"bar", "ab"}

Str(s) == [typ |-> "string", val |-> s]
NotStr == [typ |-> "int", val |-> "1"]
IsString(e) == e.typ = "string"

\* decoded requests the peers send
Requests ==
    { <<>>,
      << NotStr >>,
      << Str("PING") >>,
      << Str("GET") >>,
      << Str("GET"), NotStr >>,
      << Str("get"), Str("foo") >>,
      << Str("GET"), Str("missing") >>,
      << Str("GET"), Str("foo"), Str("bar") >>,
      << Str("SET"), Str("foo") >>,
      << Str("SET"), Str("foo"), Str("bar") >>,
      << Str("set"), Str("foo"), Str("ab") >>,
      << Str("SET"), Str("missing"), Str("ab") >>,
      << Str("SET"), Str("foo"), Str("bar"), Str("ab") >> }

Free == <<"free", 0>>

\* strings.ToUpper on the command names that occur
ToUpper(s) ==
    CASE s = "get"  -> "GET"
      [] s = "set"  -> "SET"
      [] s = "ping" -> "PING"
      [] OTHER      -> s

\* reply encodings written by the handlers
OkReply   == "+OK\r\n"
NullReply == "_\r\n"
ErrGet    == "-ERR missing key\r\n"
ErrSet    == "-ERR missing ket and value\r\n"
Bulk(v)   == "$" \o ToString(Len(v)) \o "\r\n" \o v \o "\r\n"

IsOpen(c) == closedBy[c] = <<>>

\* conn.Write: fails once the connection has been closed
ConnWrite(c, bytes) == [bytes |-> bytes, ok |-> IsOpen(c)]

\* the handles a Close can fail on
CloseTargets == Conns \cup {0}
NoCloseErr == { {} }

\* the server after NewServer, with nStart calls to Start and nStop calls to
\* Stop still to come, peers that send at most reqs requests and Close
\* failing on one of the sets in errs
InitWith(nStart, nStop, reqs, errs) ==
    /\ started = FALSE
    /\ shuttingDown = FALSE
    /\ listenerOpen = TRUE
    /\ clients = << >>
    /\ lastClientId = 0
    /\ clientsLock = Free
    /\ database = << >>
    /\ startPc = [p \in StartCallers |-> IF p <= nStart THEN "init" ELSE "uncalled"]
    /\ startRet = [p \in StartCallers |-> "none"]
    /\ startConn = [p \in StartCallers |-> 0]
    /\ startErr = [p \in StartCallers |-> "none"]
    /\ startFlag = [p \in StartCallers |-> FALSE]
    /\ stopPc = [p \in StopCallers |-> IF p <= nStop THEN "init" ELSE "uncalled"]
    /\ stopRet = [p \in StopCallers |-> "none"]
    /\ stopTodo = [p \in StopCallers |-> {}]
    /\ accepted = 0
    /\ closedBy = [c \in Conns |-> <<>>]
    /\ closeErr \in errs
    /\ wPc = [c \in Conns |-> "none"]
    /\ wId = [c \in Conns |-> 0]
    /\ wReq = [c \in Conns |-> <<>>]
    /\ wReplies = [c \in Conns |-> <<>>]
    /\ nreq = reqs
    /\ written = [k \in Keys |-> <<>>]

\* the whole server: every Start and Stop call, peers that send requests
Init == InitWith(NumStart, NumStop, LifeReqs, NoCloseErr)

\* lifecycle runs: every Start and Stop call, peers that only connect and
\* disconnect
InitLifecycle == InitWith(NumStart, NumStop, 0, NoCloseErr)

\* runs checked under fair scheduling: one Start call, every Stop call
InitLive == InitWith(1, NumStop, 0, NoCloseErr)

\* shutdown runs: one Start call, every Stop call, Close may fail on any handle
InitStop == InitWith(1, NumStop, 0, SUBSET CloseTargets)

\* one Start call and one Stop call, peers that send requests
InitServer == InitWith(1, 1, LifeReqs, NoCloseErr)

\* command runs: Start has admitted MaxConns clients and waits in Accept,
\* every worker is about to read, Stop has not been called
InitCommands ==
    /\ started = TRUE
    /\ shuttingDown = FALSE
    /\ listenerOpen = TRUE
    /\ clients = [i \in Conns |-> i]
    /\ lastClientId = MaxConns
    /\ clientsLock = Free
    /\ database = << >>
    /\ startPc = [p \in StartCallers |-> IF p = 1 THEN "accept" ELSE "init"]
    /\ startRet = [p \in StartCallers |-> "none"]
    /\ startConn = [p \in StartCallers |-> IF p = 1 THEN MaxConns ELSE 0]
    /\ startErr = [p \in StartCallers |-> "none"]
    /\ startFlag = [p \in StartCallers |-> FALSE]
    /\ stopPc = [p \in StopCallers |-> "init"]
    /\ stopRet = [p \in StopCallers |-> "none"]
    /\ stopTodo = [p \in StopCallers |-> {}]
    /\ accepted = MaxConns
    /\ closedBy = [c \in Conns |-> <<>>]
    /\ closeErr = {}
    /\ wPc = [c \in Conns |-> "read"]
    /\ wId = [c \in Conns |-> c]
    /\ wReq = [c \in Conns |-> <<>>]
    /\ wReplies = [c \in Conns |-> <<>>]
    /\ nreq = MaxReqs
    /\ written = [k \in Keys |-> <<>>]

\* ----------------------------------------------------------------- Start
\* started.CompareAndSwap(false, true): result and new value of the flag
CompareAndSwapAlways(cur) == [swapped |-> TRUE, val |-> TRUE]
CompareAndSwap(cur) == [swapped |-> (cur = FALSE), val |-> (IF cur = FALSE THEN TRUE ELSE cur)]

StartCAS(p) ==
    /\ startPc[p] = "init"
    /\ LET r == CompareAndSwap(started) IN
        /\ started' = r.val
        /\ IF r.swapped
             THEN /\ startPc' = [startPc EXCEPT ![p] = "accept"]
                  /\ UNCHANGED startRet
             ELSE /\ startPc' = [startPc EXCEPT ![p] = "done"]
                  /\ startRet' = [startRet EXCEPT ![p] = "already started"]
    /\ UNCHANGED <<shuttingDown, listenerOpen, clients, lastClientId, clientsLock,
                   startConn, startErr, startFlag, stopVars, connVars, workVars, dataVars>>

\* listener.Accept() returns a new connection
AcceptConn(p) ==
    /\ startPc[p] = "accept"
    /\ listenerOpen
    /\ accepted < MaxConns
    /\ accepted' = accepted + 1
    /\ startConn' = [startConn EXCEPT ![p] = accepted + 1]
    /\ startPc' = [startPc EXCEPT ![p] = "insert"]
    /\ UNCHANGED <<lifecycle, startRet, startErr, startFlag, stopVars, closedBy, closeErr,
                   workVars, dataVars>>

\* listener.Accept() fails although the listener was not closed
AcceptError(p) ==
    /\ startPc[p] = "accept"
    /\ listenerOpen
    /\ startErr' = [startErr EXCEPT ![p] = "other"]
    /\ startPc' = [startPc EXCEPT ![p] = "errLock"]
    /\ UNCHANGED <<lifecycle, startRet, startConn, startFlag, stopVars, connVars, workVars, dataVars>>

\* listener.Accept() fails because the listener is closed
AcceptClosed(p) ==
    /\ startPc[p] = "accept"
    /\ ~listenerOpen
    /\ startErr' = [startErr EXCEPT ![p] = "closed"]
    /\ startPc' = [startPc EXCEPT ![p] = "errLock"]
    /\ UNCHANGED <<lifecycle, startRet, startConn, startFlag, stopVars, connVars, workVars, dataVars>>

\* clientsLock.Lock(); isShuttingDown := s.shuttingDown
StartErrLock(p) ==
    /\ startPc[p] = "errLock"
    /\ clientsLock = Free
    /\ clientsLock' = <<"start", p>>
    /\ startFlag' = [startFlag EXCEPT ![p] = shuttingDown]
    /\ startPc' = [startPc EXCEPT ![p] = "errRet"]
    /\ UNCHANGED <<started, shuttingDown, listenerOpen, clients, lastClientId,
                   startRet, startConn, startErr, stopVars, connVars, workVars, dataVars>>

\* the value Start returns after a failed Accept
AcceptResultAlwaysNil(isShuttingDown) == "nil"
AcceptResult(isShuttingDown) == IF ~isShuttingDown THEN "accept error" ELSE "nil"

\* clientsLock.Unlock(); return err / nil
StartErrReturn(p) ==
    /\ startPc[p] = "errRet"
    /\ clientsLock = <<"start", p>>
    /\ clientsLock' = Free
    /\ startRet' = [startRet EXCEPT ![p] = AcceptResult(startFlag[p])]
    /\ startPc' = [startPc EXCEPT ![p] = "done"]
    /\ UNCHANGED <<started, shuttingDown, listenerOpen, clients, lastClientId,
                   startConn, startErr, startFlag, stopVars, connVars, workVars, dataVars>>

\* s.lastClientId++
NextIdSame(last) == IF last = 0 THEN 1 ELSE last
NextId(last) == last + 1

\* clientsLock.Lock(); lastClientId += 1; clients[clientId] = conn
StartInsert(p) ==
    /\ startPc[p] = "insert"
    /\ clientsLock = Free
    /\ clientsLock' = <<"start", p>>
    /\ lastClientId' = NextId(lastClientId)
    /\ clients' = [i \in DOMAIN clients \cup {lastClientId'} |->
                     IF i = lastClientId' THEN startConn[p] ELSE clients[i]]
    /\ wId' = [wId EXCEPT ![startConn[p]] = lastClientId']
    /\ startPc' = [startPc EXCEPT ![p] = "unlock"]
    /\ UNCHANGED <<started, shuttingDown, listenerOpen, startRet, startConn, startErr,
                   startFlag, stopVars, connVars, wPc, wReq, wReplies, nreq, dataVars>>

\* clientsLock.Unlock() in the accept loop, before the worker is launched
UnlockKept(holder) == holder
Unlock(holder) == Free

StartUnlock(p) ==
    /\ startPc[p] = "unlock"
    /\ clientsLock = <<"start", p>>
    /\ clientsLock' = Unlock(clientsLock)
    /\ startPc' = [startPc EXCEPT ![p] = "launch"]
    /\ UNCHANGED <<started, shuttingDown, listenerOpen, clients, lastClientId,
                   startRet, startConn, startErr, startFlag, stopVars, connVars, workVars, dataVars>>

\* go s.handleConn(clientId, conn)
StartLaunch(p) ==
    /\ startPc[p] = "launch"
    /\ wPc' = [wPc EXCEPT ![startConn[p]] = "read"]
    /\ startPc' = [startPc EXCEPT ![p] = "accept"]
    /\ UNCHANGED <<lifecycle, startRet, startConn, startErr, startFlag, stopVars,
                   connVars, wId, wReq, wReplies, nreq, dataVars>>

\* ------------------------------------------------------------------ Stop
\* if s.shuttingDown { return "Already shutting down" }
AlreadyShuttingDownNever(flag) == FALSE
AlreadyShuttingDown(flag) == flag

\* clientsLock.Lock(); check shuttingDown; shuttingDown = true
StopEnter(p) ==
    /\ stopPc[p] = "init"
    /\ clientsLock = Free
    /\ clientsLock' = <<"stop", p>>
    /\ IF AlreadyShuttingDown(shuttingDown)
         THEN /\ stopPc' = [stopPc EXCEPT ![p] = "retErr"]
              /\ UNCHANGED <<shuttingDown, stopTodo>>
         ELSE /\ shuttingDown' = TRUE
              /\ stopTodo' = [stopTodo EXCEPT ![p] = DOMAIN clients]
              /\ stopPc' = [stopPc EXCEPT ![p] = "sweep"]
    /\ UNCHANGED <<started, listenerOpen, clients, lastClientId, stopRet,
                   startVars, connVars, workVars, dataVars>>

\* where the sweep goes after conn.Close() returned: a failure is only logged
AfterClientCloseAbort(failed) == IF failed THEN "ret" ELSE "sweep"
AfterClientClose(failed) == "sweep"

\* one iteration of: for clientId, conn := range s.clients { conn.Close() };
\* Close releases the handle also when it reports an error
StopCloseClient(p) ==
    /\ stopPc[p] = "sweep"
    /\ \E id \in stopTodo[p] :
        /\ stopPc' = [stopPc EXCEPT ![p] = AfterClientClose(clients[id] \in closeErr)]
        /\ closedBy' = [closedBy EXCEPT ![clients[id]] = Append(@, <<"sweep", p>>)]
        /\ stopTodo' = [stopTodo EXCEPT ![p] = @ \ {id}]
    /\ UNCHANGED <<lifecycle, stopRet, startVars, accepted, closeErr, workVars, dataVars>>

\* clear(s.clients)
ClearKeeps(cl) == cl
Clear(cl) == << >>

StopClear(p) ==
    /\ stopPc[p] = "sweep"
    /\ stopTodo[p] = {}
    /\ clients' = Clear(clients)
    /\ stopPc' = [stopPc EXCEPT ![p] = "closeListener"]
    /\ UNCHANGED <<started, shuttingDown, listenerOpen, lastClientId, clientsLock,
                   stopRet, stopTodo, startVars, connVars, workVars, dataVars>>

\* s.listener.Close(): the listener no longer accepts
ListenerCloseSkipped(open) == open
ListenerClose(open) == FALSE

StopCloseListener(p) ==
    /\ stopPc[p] = "closeListener"
    /\ listenerOpen' = ListenerClose(listenerOpen)
    /\ stopPc' = [stopPc EXCEPT ![p] = "ret"]
    /\ UNCHANGED <<started, shuttingDown, clients, lastClientId, clientsLock,
                   stopRet, stopTodo, startVars, connVars, workVars, dataVars>>

\* return (the deferred clientsLock.Unlock() runs)
\* what the successful Stop returns: a listener.Close() failure is only logged
StopResultListenerErr(listenerFailed) == IF listenerFailed THEN "close error" ELSE "nil"
StopResult(listenerFailed) == "nil"

StopReturn(p) ==
    /\ stopPc[p] \in {"ret", "retErr"}
    /\ clientsLock = <<"stop", p>>
    /\ clientsLock' = Free
    /\ stopRet' = [stopRet EXCEPT ![p] =
                     IF stopPc[p] = "ret" THEN StopResult(0 \in closeErr)
                                          ELSE "already shutting down"]
    /\ stopPc' = [stopPc EXCEPT ![p] = "done"]
    /\ UNCHANGED <<started, shuttingDown, listenerOpen, clients, lastClientId,
                   stopTodo, startVars, connVars, workVars, dataVars>>

\* ------------------------------------------------------- command handlers
\* handleGetCommand: the database afterwards and the writes to the connection
handleGetCommandErrOnAbsent(db, c, command) ==
    IF Len(command) < 2 \/ ~IsString(command[2])
      THEN [db |-> db, writes |-> << ConnWrite(c, ErrGet) >>]
      ELSE LET key == command[2].val IN
           IF key \in DOMAIN db
             THEN [db |-> db, writes |-> << ConnWrite(c, Bulk(db[key])) >>]
             ELSE [db |-> db, writes |-> << ConnWrite(c, ErrGet) >>]

handleGetCommandSilentOnMissing(db, c, command) ==
    IF Len(command) < 2 \/ ~IsString(command[2])
      THEN [db |-> db, writes |-> << >>]
      ELSE LET key == command[2].val IN
           IF key \in DOMAIN db
             THEN [db |-> db, writes |-> << ConnWrite(c, Bulk(db[key])) >>]
             ELSE [db |-> db, writes |-> << ConnWrite(c, NullReply) >>]

handleGetCommand(db, c, command) ==
    IF Len(command) < 2
      THEN [db |-> db, writes |-> << ConnWrite(c, ErrGet) >>]
      ELSE IF ~IsString(command[2])
      THEN [db |-> db, writes |-> << ConnWrite(c, ErrGet) >>]
      ELSE LET key == command[2].val IN
           IF key \in DOMAIN db
             THEN [db |-> db, writes |-> << ConnWrite(c, Bulk(db[key])) >>]
             ELSE [db |-> db, writes |-> << ConnWrite(c, NullReply) >>]

\* s.database[key] = value
StoreKeepFirst(db, key, value) ==
    IF key \in DOMAIN db THEN db
    ELSE [k \in DOMAIN db \cup {key} |-> IF k = key THEN value ELSE db[k]]
StoreAlone(db, key, value) == [k \in {key} |-> value]
Store(db, key, value) ==
    [k \in DOMAIN db \cup {key} |-> IF k = key THEN value ELSE db[k]]

\* handleSetCommand: stored is <<key, value>> when the assignment ran
handleSetCommand(db, c, command) ==
    IF Len(command) < 3
      THEN [db |-> db, stored |-> <<>>, writes |-> << ConnWrite(c, ErrSet) >>]
      ELSE IF ~IsString(command[2])
      THEN [db |-> db, stored |-> <<>>, writes |-> << ConnWrite(c, ErrSet) >>]
      ELSE IF ~IsString(command[3])
      THEN [db |-> db, stored |-> <<>>, writes |-> << ConnWrite(c, ErrSet) >>]
      ELSE [db |-> Store(db, command[2].val, command[3].val),
            stored |-> << command[2].val, command[3].val >>,
            writes |-> << ConnWrite(c, OkReply) >>]

\* ------------------------------------------------------------ handleConn
\* readArray(conn, true): what one call can return
ReadResults(c) ==
    IF ~IsOpen(c)
      THEN { [err |-> "closed", req |-> <<>>] }
      ELSE { [err |-> "eof", req |-> <<>>], [err |-> "framing", req |-> <<>>] }
           \cup (IF nreq > 0 THEN { [err |-> "nil", req |-> r] : r \in Requests } ELSE {})

\* where the loop body goes with a decoded request
DispatchUnchecked(request) ==
    IF Len(request) = 0 THEN "ack"
    ELSE IF ~IsString(request[1]) THEN "ack"
    ELSE CASE ToUpper(request[1].val) = "GET" -> "get"
           [] ToUpper(request[1].val) = "SET" -> "set"
           [] OTHER -> "ack"

Dispatch(request) ==
    IF Len(request) = 0 THEN "cleanup"
    ELSE IF ~IsString(request[1]) THEN "cleanup"
    ELSE CASE ToUpper(request[1].val) = "GET" -> "get"
           [] ToUpper(request[1].val) = "SET" -> "set"
           [] OTHER -> "ack"

\* request, err := readArray(conn, true) and the checks up to the switch
WRead(c) ==
    /\ wPc[c] = "read"
    /\ \E res \in ReadResults(c) :
        IF res.err # "nil"
          THEN /\ wPc' = [wPc EXCEPT ![c] = "cleanup"]
               /\ wReq' = [wReq EXCEPT ![c] = <<>>]
               /\ wReplies' = [wReplies EXCEPT ![c] = <<>>]
               /\ UNCHANGED nreq
          ELSE /\ nreq' = nreq - 1
               /\ wReq' = [wReq EXCEPT ![c] = res.req]
               /\ wReplies' = [wReplies EXCEPT ![c] = <<>>]
               /\ wPc' = [wPc EXCEPT ![c] = Dispatch(res.req)]
    /\ UNCHANGED <<lifecycle, startVars, stopVars, connVars, wId, dataVars>>

\* case "GET": err = s.handleGetCommand(clientId, conn, request)
WGet(c) ==
    /\ wPc[c] = "get"
    /\ LET r == handleGetCommand(database, c, wReq[c]) IN
        /\ database' = r.db
        /\ wReplies' = [wReplies EXCEPT ![c] = r.writes]
    /\ wPc' = [wPc EXCEPT ![c] = "ack"]
    /\ UNCHANGED <<lifecycle, startVars, stopVars, connVars, wId, wReq, nreq, written>>

\* case "SET": err = s.handleSetCommand(clientId, conn, request)
WSet(c) ==
    /\ wPc[c] = "set"
    /\ LET r == handleSetCommand(database, c, wReq[c]) IN
        /\ database' = r.db
        /\ wReplies' = [wReplies EXCEPT ![c] = r.writes]
        /\ written' = IF r.stored = <<>> THEN written
                      ELSE [written EXCEPT ![r.stored[1]] = Append(@, r.stored[2])]
    /\ wPc' = [wPc EXCEPT ![c] = "ack"]
    /\ UNCHANGED <<lifecycle, startVars, stopVars, connVars, wId, wReq, nreq>>

\* the write after the switch: conn.Write("+OK\r\n"), failure only logged
WAck(c) ==
    /\ wPc[c] = "ack"
    /\ wReplies' = [wReplies EXCEPT ![c] = << ConnWrite(c, OkReply) >>]
    /\ wReq' = [wReq EXCEPT ![c] = <<>>]
    /\ wPc' = [wPc EXCEPT ![c] = "read"]
    /\ UNCHANGED <<lifecycle, startVars, stopVars, connVars, wId, nreq, dataVars>>

\* if _, ok := s.clients[clientId]; !ok
PresentAlways(cl, id) == TRUE
Present(cl, id) == id \in DOMAIN cl

\* clientsLock.Lock(); check the id; delete(s.clients, clientId)
\* delete(s.clients, clientId)
DeleteAll(cl, id) == << >>
Delete(cl, id) == [i \in DOMAIN cl \ {id} |-> cl[i]]

WCleanupLock(c) ==
    /\ wPc[c] = "cleanup"
    /\ clientsLock = Free
    /\ clientsLock' = <<"worker", c>>
    /\ IF Present(clients, wId[c])
         THEN /\ clients' = Delete(clients, wId[c])
              /\ wPc' = [wPc EXCEPT ![c] = "removed"]
         ELSE /\ wPc' = [wPc EXCEPT ![c] = "absent"]
              /\ UNCHANGED clients
    /\ UNCHANGED <<started, shuttingDown, listenerOpen, lastClientId,
                   startVars, stopVars, connVars, wId, wReq, wReplies, nreq, dataVars>>

\* clientsLock.Unlock() on either branch; the absent branch returns
WUnlock(c) ==
    /\ wPc[c] \in {"removed", "absent"}
    /\ clientsLock = <<"worker", c>>
    /\ clientsLock' = Free
    /\ wPc' = [wPc EXCEPT ![c] = IF wPc[c] = "removed" THEN "close" ELSE "returned"]
    /\ UNCHANGED <<started, shuttingDown, listenerOpen, clients, lastClientId,
                   startVars, stopVars, connVars, wId, wReq, wReplies, nreq, dataVars>>

\* conn.Close() by the worker
WClose(c) ==
    /\ wPc[c] = "close"
    /\ closedBy' = [closedBy EXCEPT ![c] = Append(@, <<"worker", c>>)]
    /\ wPc' = [wPc EXCEPT ![c] = "closed"]
    /\ UNCHANGED <<lifecycle, startVars, stopVars, accepted, closeErr, wId, wReq, wReplies,
                   nreq, dataVars>>

\* ------------------------------------------------------- specifications
\* the Start calls
StartStep ==
    \/ \E p \in StartCallers : StartCAS(p)
    \/ \E p \in StartCallers : AcceptConn(p)
    \/ \E p \in StartCallers : AcceptError(p)
    \/ \E p \in StartCallers : AcceptClosed(p)
    \/ \E p \in StartCallers : StartErrLock(p)
    \/ \E p \in StartCallers : StartErrReturn(p)
    \/ \E p \in StartCallers : StartInsert(p)
    \/ \E p \in StartCallers : StartUnlock(p)
    \/ \E p \in StartCallers : StartLaunch(p)

\* the Stop calls
StopStep ==
    \/ \E p \in StopCallers : StopEnter(p)
    \/ \E p \in StopCallers : StopCloseClient(p)
    \/ \E p \in StopCallers : StopClear(p)
    \/ \E p \in StopCallers : StopCloseListener(p)
    \/ \E p \in StopCallers : StopReturn(p)

\* a worker reads and later cleans up
WorkerStep ==
    \/ \E c \in Conns : WRead(c)
    \/ \E c \in Conns : WCleanupLock(c)
    \/ \E c \in Conns : WUnlock(c)
    \/ \E c \in Conns : WClose(c)

\* a worker runs a decoded request
CommandStep ==
    \/ \E c \in Conns : WGet(c)
    \/ \E c \in Conns : WSet(c)
    \/ \E c \in Conns : WAck(c)

Next == StartStep \/ StopStep \/ WorkerStep \/ CommandStep

Spec == Init /\ [][Next]_vars

\* the server started once and stopped once while requests are served
ServerSpec == InitServer /\ [][Next]_vars

\* Start, Stop and the workers of peers that send no request
NextLifecycle == StartStep \/ StopStep \/ WorkerStep

LifecycleSpec == InitLifecycle /\ [][NextLifecycle]_vars

\* Start, Stop and the workers when Close can fail
StopSpec == InitStop /\ [][NextLifecycle]_vars

\* the workers of the admitted clients while the server keeps running
NextCommands == WorkerStep \/ CommandStep

CommandSpec == InitCommands /\ [][NextCommands]_vars

\* scheduling: every step that does not wait for the peer or for a new
\* connection is eventually taken (goroutines are scheduled, the mutex is fair)
Fairness ==
    /\ \A p \in StartCallers :
        /\ WF_vars(AcceptClosed(p))
        /\ WF_vars(StartErrLock(p))
        /\ WF_vars(StartErrReturn(p))
        /\ WF_vars(StartInsert(p))
        /\ WF_vars(StartUnlock(p))
        /\ WF_vars(StartLaunch(p))
    /\ \A p \in StopCallers :
        /\ WF_vars(StopCloseClient(p))
        /\ WF_vars(StopClear(p))
        /\ WF_vars(StopCloseListener(p))
        /\ WF_vars(StopReturn(p))
    /\ \A c \in Conns :
        /\ WF_vars(WGet(c))
        /\ WF_vars(WSet(c))
        /\ WF_vars(WAck(c))
        /\ WF_vars(WCleanupLock(c))
        /\ WF_vars(WUnlock(c))
        /\ WF_vars(WClose(c))

LiveSpec == InitLive /\ [][NextLifecycle]_vars /\ Fairness

\* runs in which every Stop call has been made and waits for the registry
\* lock: the mutex hands the free lock to a waiting caller
LockFairness == Fairness /\ \A p \in StopCallers : WF_vars(StopEnter(p))

LockSpec == InitLive /\ [][NextLifecycle]_vars /\ LockFairness

\* ------------------------------------------------------------ properties
InLoop(p) == startPc[p] \in {"accept", "insert", "unlock", "launch", "errLock", "errRet"}
PassedCAS(p) == InLoop(p) \/ (startPc[p] = "done" /\ startRet[p] # "already started")
StartWinners == {p \in StartCallers : PassedCAS(p)}

Sweeping(p) == stopPc[p] \in {"sweep", "closeListener", "ret"} \/ stopRet[p] = "nil"
StopWinners == {p \in StopCallers : Sweeping(p)}
StopCompleted == \E q \in StopCallers : stopRet[q] = "nil"

Closers(c) == {closedBy[c][i] : i \in 1..Len(closedBy[c])}
SweepClosed(c) == \E q \in StopCallers : <<"sweep", q>> \in Closers(c)

\* C1: of all calls to Start exactly one passes the compare-and-set and runs
\* the accept loop; each other call returns "server already started" and its
\* step changes nothing but the caller's own result (no Accept, no registry
\* change, no client id).
C1_StartOnce ==
    /\ [](/\ Cardinality(StartWinners) <= 1
          /\ (\E p \in StartCallers : startPc[p] \notin {"init", "uncalled"})
                => Cardinality(StartWinners) = 1
          /\ \A p \in StartCallers : startRet[p] = "already started"
                => startConn[p] = 0 /\ startErr[p] = "none")
    /\ [][\A p \in StartCallers :
            (startRet[p] # "already started" /\ startRet'[p] = "already started")
              => UNCHANGED <<lifecycle, stopVars, connVars, workVars, dataVars>>]_vars

C1_Witness ==
    \E p, q \in StartCallers :
        /\ PassedCAS(p) /\ accepted > 0 /\ lastClientId > 0
        /\ startRet[q] = "already started"

\* C2: of all calls to Stop exactly one performs the sweep and returns nil;
\* each other call returns "Already shutting down" and leaves the registry,
\* the shuttingDown flag, the listener and every connection as they were.
C2_StopOnce ==
    /\ [](/\ Cardinality(StopWinners) <= 1
          /\ (\E p \in StopCallers : stopPc[p] \notin {"init", "uncalled"})
                => Cardinality(StopWinners) = 1
          /\ \A p \in StopCallers : stopRet[p] = "already shutting down"
                => \A c \in Conns : <<"sweep", p>> \notin Closers(c))
    /\ [][\A p \in StopCallers :
            ((stopPc[p] = "init" /\ stopPc'[p] = "retErr") \/ (stopPc[p] = "retErr" /\ stopPc'[p] = "done"))
              => UNCHANGED <<clients, shuttingDown, listenerOpen, closedBy, lastClientId>>]_vars

C2_Witness ==
    \E p, q \in StopCallers :
        /\ stopRet[p] = "nil"
        /\ stopRet[q] = "already shutting down"
        /\ \E c \in Conns : <<"sweep", p>> \in Closers(c)

\* C3: every connection is closed at most once; a worker closes only after it
\* removed its own id, the sweep closes only connections whose worker did not
\* remove the id, and a worker that found its id absent never closes.
C3_ClosedOnce ==
    \A c \in Conns :
        /\ Len(closedBy[c]) <= 1
        /\ <<"worker", c>> \in Closers(c) => wPc[c] = "closed"
        /\ wPc[c] \in {"removed", "close", "closed"} => ~SweepClosed(c)
        /\ wPc[c] \in {"absent", "returned"} => <<"worker", c>> \notin Closers(c)

C3_Witness ==
    \E c, d \in Conns :
        /\ SweepClosed(c) /\ wPc[c] = "returned"
        /\ closedBy[d] = << <<"worker", d>> >> /\ StopCompleted

\* C4: once shuttingDown is set no client id is assigned, no connection is
\* inserted into the registry and no worker is launched.
C4_NoAdmissionAfterShutdown ==
    [][shuttingDown =>
         /\ lastClientId' = lastClientId
         /\ DOMAIN clients' \subseteq DOMAIN clients
         /\ \A c \in Conns : wPc[c] = "none" => wPc'[c] = "none"]_vars

\* C5: once Stop has returned nil the registry is empty and stays empty and
\* the listener no longer accepts.
C5_EmptyAfterStop ==
    StopCompleted => (DOMAIN clients = {} /\ ~listenerOpen)

\* C6 (as stated): a failed Accept that Stop caused makes Start return nil,
\* a failed Accept with any other cause makes Start return the accept error.
C6_ByCause ==
    \A p \in StartCallers :
        startPc[p] = "done" =>
            /\ startErr[p] = "closed" => startRet[p] = "nil"
            /\ startErr[p] = "other" => startRet[p] = "accept error"

\* C6 (amended): a failed Accept that Stop caused makes Start return nil; a
\* failed Accept with another cause makes Start return the accept error
\* unless shuttingDown was already set when Start read it under the lock, in
\* which case Start returns nil.
C6_ByFlag ==
    \A p \in StartCallers :
        startPc[p] = "done" =>
            /\ startErr[p] = "closed" => startRet[p] = "nil"
            /\ startErr[p] = "other" =>
                  /\ startRet[p] \in {"nil", "accept error"}
                  /\ startRet[p] = "nil" <=> startFlag[p]
                  /\ startRet[p] = "nil" => shuttingDown

C6_Witness ==
    \E p \in StartCallers :
        startPc[p] = "done" /\ startErr[p] = "other" /\ startRet[p] = "nil"

\* C7: the Start call that won the compare-and-set returns only after an
\* Accept failed, and once Stop has completed a Start that is still in its
\* loop (no Accept of it having failed for another cause) eventually returns
\* nil.
C7_StartReturnsAfterStop ==
    /\ [](\A p \in StartCallers :
            (startPc[p] = "done" /\ startRet[p] # "already started") => startErr[p] # "none")
    /\ \A p \in StartCallers :
         (StopCompleted /\ InLoop(p) /\ startErr[p] # "other") ~> (startRet[p] = "nil")

C7_Witness ==
    \E p \in StartCallers :
        StopCompleted /\ startRet[p] = "nil" /\ startErr[p] = "closed" /\ accepted > 0

\* requests as the handlers see them
IsCommand(request, name) ==
    /\ Len(request) >= 1
    /\ IsString(request[1])
    /\ ToUpper(request[1].val) = name
HasKey(request) == Len(request) >= 2 /\ IsString(request[2]) /\ request[2].val \in Keys
LastWritten(k) == written[k][Len(written[k])]
GetStep(c) == wPc[c] = "get" /\ wPc'[c] = "ack"

\* C8: a GET of a key on which SETs have completed is answered with the bulk
\* encoding of the value of the last completed SET on that key, whichever
\* connections the SETs came from.
C8_LastWriteWins ==
    [][\A c \in Conns :
         (GetStep(c) /\ HasKey(wReq[c]) /\ written[wReq[c][2].val] # <<>>)
           => /\ Len(wReplies'[c]) = 1
              /\ wReplies'[c][1].bytes = Bulk(LastWritten(wReq[c][2].val))]_vars

C8_Witness ==
    \E c \in Conns :
        /\ wPc[c] = "ack"
        /\ IsCommand(wReq[c], "GET") /\ HasKey(wReq[c]) /\ wReq[c][2].val = "foo"
        /\ written["foo"] = <<"bar", "ab">>
        /\ wReplies[c] = << [bytes |-> "$2\r\nab\r\n", ok |-> TRUE] >>

\* C9: a GET of a key on which no SET has completed is answered with the
\* null reply, and no GET changes the store.
C9_GetAbsentIsNull ==
    [][\A c \in Conns :
         GetStep(c) =>
           /\ database' = database
           /\ (HasKey(wReq[c]) /\ written[wReq[c][2].val] = <<>>)
                => /\ Len(wReplies'[c]) = 1
                   /\ wReplies'[c][1].bytes = "_\r\n"]_vars

C9_Witness ==
    \E c \in Conns :
        /\ wPc[c] = "ack"
        /\ IsCommand(wReq[c], "GET") /\ HasKey(wReq[c]) /\ wReq[c][2].val = "missing"
        /\ written["missing"] = <<>> /\ written["foo"] # <<>>
        /\ "foo" \in DOMAIN database
        /\ wReplies[c] = << [bytes |-> "_\r\n", ok |-> TRUE] >>

\* C10: for a GET with a key or a SET with a key and a value, on a connection
\* that is still open, the handler has written exactly one reply and the
\* worker writes nothing more for that request before it reads again.
C10_OneReplyPerRequest ==
    [][\A c \in Conns :
         (/\ wPc[c] = "ack" /\ wPc'[c] = "read"
          /\ \/ IsCommand(wReq[c], "GET") /\ HasKey(wReq[c])
             \/ IsCommand(wReq[c], "SET") /\ HasKey(wReq[c])
                  /\ Len(wReq[c]) >= 3 /\ IsString(wReq[c][3])
          /\ closedBy'[c] = <<>>)
           => Len(wReplies[c]) = 1 /\ wReplies'[c] = <<>>]_vars

\* error replies: the marker, a message and the terminator
ErrMessages == {"missing key", "missing ket and value"}
IsErrorReply(bytes) == \E m \in ErrMessages : bytes = "-ERR " \o m \o "\r\n"
SetStep(c) == wPc[c] = "set" /\ wPc'[c] = "ack"

\* C11: a GET whose request has not exactly one argument and a SET whose
\* request has not exactly two arguments are answered with an error reply
\* and leave the store unchanged.
C11_ExactArity ==
    [][\A c \in Conns :
         /\ (GetStep(c) /\ Len(wReq[c]) # 2)
              => IsErrorReply(wReplies'[c][1].bytes) /\ database' = database
         /\ (SetStep(c) /\ Len(wReq[c]) # 3)
              => IsErrorReply(wReplies'[c][1].bytes) /\ database' = database]_vars

MissingKey(request) == Len(request) < 2 \/ ~IsString(request[2])
MissingValue(request) == Len(request) < 3 \/ ~IsString(request[2]) \/ ~IsString(request[3])

\* C12: a GET without its key and a SET without key or value are answered
\* with one error reply beginning with -ERR; the store and the registry stay
\* as they were, and the worker goes on to read the next request on the same
\* connection instead of cleaning up.
C12_CommandErrorKeepsConnection ==
    [][\A c \in Conns :
         /\ ((GetStep(c) /\ MissingKey(wReq[c])) \/ (SetStep(c) /\ MissingValue(wReq[c])))
              => /\ Len(wReplies'[c]) = 1
                 /\ IsErrorReply(wReplies'[c][1].bytes)
                 /\ database' = database
                 /\ clients' = clients
         /\ (wPc[c] = "ack" /\ wPc'[c] # "ack")
              => wPc'[c] = "read" /\ clients' = clients /\ closedBy' = closedBy]_vars

C12_Witness ==
    \E c \in Conns :
        /\ wPc[c] = "ack"
        /\ wReq[c] = << Str("GET") >>
        /\ wReplies[c] = << [bytes |-> "-ERR missing key\r\n", ok |-> TRUE] >>
        /\ wId[c] \in DOMAIN clients
        /\ "foo" \in DOMAIN database

Stored(k) == IF k \in DOMAIN database THEN <<database[k]>> ELSE <<>>

\* C13: with workers writing concurrently, every key holds the value of the
\* last completed SET on that key (no value before any SET), and a SET on
\* one key leaves the presence and the value of every other key unchanged.
C13_DisjointKeys ==
    /\ [](\A k \in Keys :
            Stored(k) = IF written[k] = <<>> THEN <<>> ELSE << LastWritten(k) >>)
    /\ [][\A c \in Conns :
            (SetStep(c) /\ ~MissingValue(wReq[c]))
              => \A k \in Keys \ {wReq[c][2].val} :
                    (k \in DOMAIN database' <=> k \in DOMAIN database)
                    /\ (k \in DOMAIN database => database'[k] = database[k])]_vars

\* two workers have each just written their own key
C13_Witness ==
    \E c, d \in Conns :
        /\ c # d
        /\ wPc[c] = "ack" /\ wReq[c] = << Str("SET"), Str("foo"), Str("bar") >>
        /\ wPc[d] = "ack" /\ wReq[d] = << Str("SET"), Str("missing"), Str("ab") >>
        /\ database = [k \in Keys |-> IF k = "foo" THEN "bar" ELSE "ab"]

Assigned(c) == wId[c] # 0
RemovedByWorker(c) == wPc[c] \in {"removed", "close", "closed"}

\* C14: whenever the registry lock is free, an assigned client id is in the
\* registry exactly when its connection is open and neither the worker's
\* cleanup nor the shutdown sweep has removed it; the registry maps the id to
\* that connection, so no registered connection has been closed by the server.
C14_RegistryInvariant ==
    clientsLock = Free =>
        /\ \A c \in Conns : Assigned(c) =>
             /\ (wId[c] \in DOMAIN clients)
                  <=> (IsOpen(c) /\ ~RemovedByWorker(c) /\ ~SweepClosed(c))
             /\ wId[c] \in DOMAIN clients => clients[wId[c]] = c
        /\ \A id \in DOMAIN clients : Assigned(clients[id]) /\ IsOpen(clients[id])

\* one client swept by Stop, another registered afterwards and still open
C14_Witness ==
    /\ clientsLock = Free
    /\ \E c, d \in Conns :
        /\ Assigned(c) /\ wId[c] \in DOMAIN clients /\ IsOpen(c)
        /\ Assigned(d) /\ wId[d] \notin DOMAIN clients /\ SweepClosed(d)

AssignedConns == {c \in Conns : Assigned(c)}

\* C15: the k-th admitted connection (connections are numbered in the order
\* Accept returned them) gets id k, starting at 1; no id is given
\* to two connections, also after earlier clients were removed from the
\* registry; every registered id is at most lastClientId, which never
\* decreases and is the id handed out by the admission that raises it.
C15_UniqueIncreasingIds ==
    /\ [](/\ \A c, d \in AssignedConns : wId[c] = wId[d] => c = d
          /\ {wId[c] : c \in AssignedConns} = 1..lastClientId
          /\ \A c \in AssignedConns : wId[c] = c
          /\ \A id \in DOMAIN clients : id >= 1 /\ id <= lastClientId)
    /\ [][/\ lastClientId' >= lastClientId
          /\ \A c \in Conns :
               /\ Assigned(c) => wId'[c] = wId[c]
               /\ (~Assigned(c) /\ wId'[c] # 0)
                    => /\ wId'[c] = lastClientId + 1
                       /\ lastClientId' = lastClientId + 1
                       /\ wId'[c] \in DOMAIN clients'
                       /\ clients'[wId'[c]] = c]_vars

\* the first client has left the registry and the second got a fresh id
C15_Witness ==
    \E c, d \in Conns :
        /\ wId[c] = 1 /\ 1 \notin DOMAIN clients /\ RemovedByWorker(c)
        /\ wId[d] = 2 /\ 2 \in DOMAIN clients
        /\ lastClientId = 2

\* a step of worker c in which it wrote to its connection and a write failed
FailedWrite(c) ==
    /\ wPc[c] \in {"get", "set", "ack"}
    /\ wPc'[c] # wPc[c]
    /\ \E i \in 1..Len(wReplies'[c]) : ~wReplies'[c][i].ok

\* C16: a step in which a write of a reply fails takes the worker out of its
\* request loop and to its cleanup.
C16_WriteFailureDisconnects ==
    [][\A c \in Conns : FailedWrite(c) => wPc'[c] = "cleanup"]_vars

Malformed(request) == Len(request) = 0 \/ ~IsString(request[1])
Leaving(c) == wPc[c] \in {"cleanup", "removed", "absent", "close", "closed", "returned"}

\* C17: when a read returns a request with no element or with a first
\* element that is not a string, or returns an error (end of stream, framing),
\* the worker goes to its cleanup: nothing is dispatched, the step writes no
\* reply and leaves the store unchanged, and a worker past its loop has
\* written nothing for that read.
C17_MalformedEndsLoop ==
    /\ [][\A c \in Conns :
            (wPc[c] = "read" /\ wPc'[c] # "read") =>
                /\ Malformed(wReq'[c]) =>
                     /\ wPc'[c] = "cleanup"
                     /\ wReplies'[c] = <<>>
                     /\ database' = database
                /\ wPc'[c] \in {"get", "set", "ack"} => ~Malformed(wReq'[c])
                /\ wPc'[c] \in {"get", "set", "ack", "cleanup"}]_vars
    /\ [](\A c \in Conns : Leaving(c) => wReplies[c] = <<>>)

\* a request whose first element is not a string ended a worker's loop
\* while the store holds a value
C17_Witness ==
    \E c \in Conns :
        /\ wPc[c] = "cleanup"
        /\ wReq[c] = << NotStr >>
        /\ wReplies[c] = <<>>
        /\ "foo" \in DOMAIN database

\* a step by which worker c ends: it leaves the loop, or advances in its cleanup
EndStep(c) == wPc'[c] # wPc[c] /\ Leaving(c)'

\* C18: a step of an ending worker removes at most its own id from the
\* registry and closes at most its own connection; every other registry
\* entry, every other connection, the store, shuttingDown, the listener, the
\* other workers and the accept loop are left as they were, and the worker
\* holds the registry lock only for its check-and-remove.
C18_FailureContained ==
    /\ [][\A c \in Conns : EndStep(c) =>
            /\ DOMAIN clients' \subseteq DOMAIN clients
            /\ \A id \in DOMAIN clients \ {wId[c]} :
                 id \in DOMAIN clients' /\ clients'[id] = clients[id]
            /\ \A d \in Conns \ {c} :
                 closedBy'[d] = closedBy[d] /\ wPc'[d] = wPc[d] /\ wId'[d] = wId[d]
            /\ closedBy'[c] \in {closedBy[c], Append(closedBy[c], <<"worker", c>>)}
            /\ UNCHANGED <<database, shuttingDown, listenerOpen, started,
                           lastClientId, startVars, stopVars>>]_vars
    /\ [](\A c \in Conns :
            clientsLock = <<"worker", c>> <=> wPc[c] \in {"removed", "absent"})

\* a worker ended on a malformed request and closed its connection while
\* another client stays registered, open and served by a running server
C18_Witness ==
    \E c, d \in Conns :
        /\ wPc[c] = "closed" /\ wReq[c] = << NotStr >>
        /\ closedBy[c] = << <<"worker", c>> >>
        /\ wId[d] \in DOMAIN clients /\ IsOpen(d) /\ wPc[d] = "read"
        /\ ~shuttingDown /\ listenerOpen
        /\ \E p \in StartCallers : startPc[p] = "accept"

SweptBy(p, c) == <<"sweep", p>> \in Closers(c)

\* C19: the Stop call that passes the shuttingDown check holds the registry
\* lock and has set shuttingDown throughout; it closes every registered
\* connection whether or not a Close fails, clears the registry only after
\* the last of them, closes the listener only after the clear, and returns
\* nil also when closing the listener failed.
C19_SweepNeverAborts ==
    /\ [](\A p \in StopCallers :
            /\ stopPc[p] \in {"sweep", "closeListener", "ret"}
                 => clientsLock = <<"stop", p>> /\ shuttingDown
            /\ stopPc[p] = "sweep"
                 => /\ listenerOpen
                    /\ stopTodo[p] \subseteq DOMAIN clients
                    /\ \A id \in DOMAIN clients \ stopTodo[p] : SweptBy(p, clients[id])
            /\ stopPc[p] \in {"closeListener", "ret"}
                 => /\ clients = << >>
                    /\ \A c \in Conns : Assigned(c) => RemovedByWorker(c) \/ SweptBy(p, c)
            /\ stopPc[p] = "closeListener" => listenerOpen
            /\ stopPc[p] = "ret" => ~listenerOpen)
    /\ [][\A p \in StopCallers :
            /\ stopPc'[p] # stopPc[p] =>
                 << stopPc[p], stopPc'[p] >> \in
                     { <<"init", "sweep">>, <<"init", "retErr">>, <<"sweep", "closeListener">>,
                       <<"closeListener", "ret">>, <<"ret", "done">>, <<"retErr", "done">> }
            /\ (stopPc[p] = "sweep" /\ stopTodo'[p] # stopTodo[p])
                 => stopPc'[p] = "sweep" /\ clients' = clients
            /\ (stopPc[p] = "ret" /\ stopPc'[p] = "done") => stopRet'[p] = "nil"
            /\ stopRet'[p] # stopRet[p] => stopPc[p] \in {"ret", "retErr"}]_vars

\* Stop returned nil although closing one client and the listener failed;
\* the other client was closed by the sweep as well
C19_Witness ==
    \E p \in StopCallers : \E c, d \in Conns :
        /\ stopRet[p] = "nil"
        /\ c \in closeErr /\ SweptBy(p, c)
        /\ d \notin closeErr /\ SweptBy(p, d)
        /\ 0 \in closeErr /\ ~listenerOpen
        /\ clients = << >>

\* the places at which a process holds the registry lock
HoldsLock(h) ==
    CASE h[1] = "start"  -> startPc[h[2]] \in {"unlock", "errRet"}
      [] h[1] = "stop"   -> stopPc[h[2]] \in {"sweep", "closeListener", "ret", "retErr"}
      [] h[1] = "worker" -> wPc[h[2]] \in {"removed", "absent"}
      [] OTHER -> FALSE

\* C20: the registry lock is held only inside the critical sections (the
\* accept loop holds it neither in Accept nor when it launches the worker),
\* a held lock is eventually released, and under fair scheduling the accept
\* loop, every worker in cleanup and every Stop call waiting for the lock
\* eventually acquires it.
C20_LockNoDeadlock ==
    /\ [](clientsLock # Free => HoldsLock(clientsLock))
    /\ (clientsLock # Free) ~> (clientsLock = Free)
    /\ \A p \in StartCallers :
         /\ (startPc[p] = "insert") ~> (clientsLock = <<"start", p>>)
         /\ (startPc[p] = "errLock") ~> (clientsLock = <<"start", p>>)
    /\ \A c \in Conns : (wPc[c] = "cleanup") ~> (clientsLock = <<"worker", c>>)
    /\ \A p \in StopCallers : (stopPc[p] = "init") ~> (clientsLock = <<"stop", p>>)

\* Stop holds the lock in its sweep while a worker in cleanup and the accept
\* loop with a new connection wait for it
C20_Witness ==
    \E p \in StopCallers, q \in StartCallers, c \in Conns :
        /\ clientsLock = <<"stop", p>> /\ stopPc[p] = "sweep"
        /\ wPc[c] = "cleanup"
        /\ startPc[q] = "insert"

====
